---- MODULE Spec2Model ----
(***************************************************************************)
(* WeatherWager (src/app.py): a Streamlit page that shows a mocked 7-day   *)
(* rain forecast, lets the visitor vote rain / no_rain per day and shows   *)
(* odds derived from the vote tally kept in st.session_state.              *)
(*                                                                         *)
(* Representation.                                                         *)
(*  - A Python dict is a TLA+ function whose DOMAIN is the set of keys.    *)
(*  - A date string is the sequence of its characters, as strftime writes  *)
(*    it and strptime reads it.                                            *)
(*  - Odds are kept in hundredths: round(x, 2) is the integer 100*x, the   *)
(*    int total + 1 is 100*(total + 1), the int 0 is 0.                    *)
(*  - Precipitation is kept in tenths of a millimetre.                     *)
(*  - The clock is a UTC instant: a calendar date <<year, month, day>> and *)
(*    an hour of the day. Date arithmetic goes through the proleptic       *)
(*    Gregorian day ordinal, as datetime's does.                           *)
(***************************************************************************)
EXTENDS Integers, Sequences, FiniteSets, Bags, TLC

VARIABLES
    session_state,  \* st.session_state: dict from session key to value
    calls,          \* history: record_bet calls made so far, per date and category
    last,           \* the most recent BettingManager call and what it returned
    now,            \* the wall clock (UTC date and hour)
    fc,             \* the most recent get_weekly_forecast call and its result
    hist,           \* the most recent get_historical_result call and its result
    page,           \* the elements the latest script run of main() has emitted
    pending         \* what the next script run is triggered by

vars == <<session_state, calls, last, now, fc, hist, page, pending>>

(***************************************************************************)
(* Bounds of the model.                                                    *)
(***************************************************************************)
\* record_bet calls with a valid category, per date
MaxVotes == 9
\* record_bet calls with an unknown category, per date
MaxInvalid == 1
\* clock ticks in the forecaster specification
MaxTicks == 3
\* clock ticks and recorded votes in the session specification
MaxSessionTicks == 2
MaxSessionVotes == 2

(***************************************************************************)
(* Config                                                                  *)
(***************************************************************************)
SESSION_KEY_BETS == "weekly_bets"
\* in tenths of a millimetre
RAIN_THRESHOLD_MM == 0
\* utcoffset of Config.TIMEZONE = 'Asia/Tokyo', in hours
TIMEZONE == 9

(***************************************************************************)
(* Calendar arithmetic: what datetime + timedelta(days=i), .date() and     *)
(* date comparison do, on day ordinals.                                    *)
(***************************************************************************)
is_leap(y) == y % 4 = 0 /\ (y % 100 # 0 \/ y % 400 = 0)

days_in_month(y, m) ==
    IF m = 2 THEN (IF is_leap(y) THEN 29 ELSE 28)
    ELSE IF m \in {4, 6, 9, 11} THEN 30 ELSE 31

days_before_year(y) ==
    LET p == y - 1 IN p * 365 + (p \div 4) - (p \div 100) + (p \div 400)

RECURSIVE days_before_month(_, _)
days_before_month(y, m) ==
    IF m = 1 THEN 0 ELSE days_before_month(y, m - 1) + days_in_month(y, m - 1)

\* date(y, m, d).toordinal()
ymd2ord(ymd) == days_before_year(ymd[1]) + days_before_month(ymd[1], ymd[2]) + ymd[3]

\* date.fromordinal(n), by the 400/100/4/1-year cycles
ord2ymd(n) ==
    LET n0   == n - 1
        n400 == n0 \div 146097
        r400 == n0 % 146097
        n100 == r400 \div 36524
        r100 == r400 % 36524
        n4   == r100 \div 1461
        r4   == r100 % 1461
        n1   == r4 \div 365
        r1   == r4 % 365
        year == n400 * 400 + 1 + n100 * 100 + n4 * 4 + n1
    IN  IF n1 = 4 \/ n100 = 4
        THEN <<year - 1, 12, 31>>
        ELSE LET month == CHOOSE m \in 1..12 :
                              /\ days_before_month(year, m) <= r1
                              /\ r1 < days_before_month(year, m) + days_in_month(year, m)
             IN  <<year, month, r1 - days_before_month(year, month) + 1>>

\* t + timedelta(hours=h), h >= 0: through the day ordinal and back, as datetime adds
plus_hours(t, h) ==
    [date |-> ord2ymd(ymd2ord(t.date) + ((t.hour + h) \div 24)),
     hour |-> (t.hour + h) % 24]

\* t + timedelta(days=i): wall-clock arithmetic (the zone has no DST)
plus_days(t, i) == [t EXCEPT !.date = ord2ymd(ymd2ord(t.date) + i)]

\* datetime.now(timezone(Config.TIMEZONE)): the UTC clock shifted to local wall time
jst_now(t) == plus_hours(t, TIMEZONE)

\* date > date
date_gt(a, b) == ymd2ord(a) > ymd2ord(b)

(***************************************************************************)
(* strftime('%Y-%m-%d') and strptime(s, '%Y-%m-%d')                        *)
(***************************************************************************)
Digits == <<"0", "1", "2", "3", "4", "5", "6", "7", "8", "9">>

DigitSet == {Digits[i] : i \in 1..10}

digit(k) == Digits[k + 1]

digit_val(c) == CHOOSE k \in 0..9 : Digits[k + 1] = c

strftime(ymd) ==
    <<digit(ymd[1] \div 1000), digit((ymd[1] \div 100) % 10),
      digit((ymd[1] \div 10) % 10), digit(ymd[1] % 10), "-",
      digit(ymd[2] \div 10), digit(ymd[2] % 10), "-",
      digit(ymd[3] \div 10), digit(ymd[3] % 10)>>

RECURSIVE number(_)
number(s) ==
    IF s = <<>> THEN 0
    ELSE 10 * number(SubSeq(s, 1, Len(s) - 1)) + digit_val(s[Len(s)])

all_digits(s) == \A i \in 1..Len(s) : s[i] \in DigitSet

ParseError == <<"ValueError">>

\* %Y is four digits, %m and %d one or two; the whole string must match and the
\* fields must name a day of the calendar, or ValueError is raised
strptime(s) ==
    LET rest == SubSeq(s, 6, Len(s))
        hy   == {i \in 1..Len(rest) : rest[i] = "-"}
        h    == CHOOSE i \in hy : TRUE
        mm   == SubSeq(rest, 1, h - 1)
        dd   == SubSeq(rest, h + 1, Len(rest))
    IN  IF /\ Len(s) >= 8
           /\ all_digits(SubSeq(s, 1, 4))
           /\ s[5] = "-"
           /\ Cardinality(hy) = 1
           /\ Len(mm) \in {1, 2} /\ all_digits(mm)
           /\ Len(dd) \in {1, 2} /\ all_digits(dd)
           /\ number(SubSeq(s, 1, 4)) >= 1
           /\ number(mm) \in 1..12
           /\ number(dd) >= 1
           /\ number(dd) <= days_in_month(number(SubSeq(s, 1, 4)), number(mm))
        THEN <<number(SubSeq(s, 1, 4)), number(mm), number(dd)>>
        ELSE ParseError

(***************************************************************************)
(* BettingManager                                                          *)
(***************************************************************************)
EmptyDict == <<>>

NewTally == [rain |-> 0, no_rain |-> 0]

dict_set(d, k, v) == [x \in DOMAIN d \cup {k} |-> IF x = k THEN v ELSE d[x]]

dict_get(d, k, default) == IF k \in DOMAIN d THEN d[k] ELSE default

\* __init__ assigning the empty ledger on every construction
BettingManager_init_always(ss) == dict_set(ss, SESSION_KEY_BETS, EmptyDict)

\* __init__: the ledger is created only when the session holds none
BettingManager_init(ss) ==
    IF SESSION_KEY_BETS \notin DOMAIN ss
    THEN dict_set(ss, SESSION_KEY_BETS, EmptyDict)
    ELSE ss

\* record_bet, first statement: the entry is created before the category is looked at
create_entry(bets, date_str) ==
    IF date_str \notin DOMAIN bets
    THEN dict_set(bets, date_str, NewTally)
    ELSE bets

\* count_bet with the elif branch pasted from the if branch
count_bet_pasted(bets, date_str, bet_type) ==
    IF bet_type = "rain"
    THEN [bets EXCEPT ![date_str].rain = @ + 1]
    ELSE IF bet_type = "no_rain"
         THEN [bets EXCEPT ![date_str].rain = @ + 1]
         ELSE bets

\* record_bet, second statement: if / elif on bet_type, no else
count_bet(bets, date_str, bet_type) ==
    IF bet_type = "rain"
    THEN [bets EXCEPT ![date_str].rain = @ + 1]
    ELSE IF bet_type = "no_rain"
         THEN [bets EXCEPT ![date_str].no_rain = @ + 1]
         ELSE bets

\* record_bet with every entry sharing one tally object
record_bet_aliased(ss, date_str, bet_type) ==
    LET bets == create_entry(ss[SESSION_KEY_BETS], date_str)
    IN  [ss EXCEPT ![SESSION_KEY_BETS] =
            [d \in DOMAIN bets |-> count_bet(bets, d, bet_type)[d]]]

record_bet(ss, date_str, bet_type) ==
    [ss EXCEPT ![SESSION_KEY_BETS] =
        count_bet(create_entry(ss[SESSION_KEY_BETS], date_str), date_str, bet_type)]

\* round_2 truncating instead of rounding
round_2_truncated(total, count) == (100 * total) \div count

\* round(total / count, 2) in hundredths. total / count is the double nearest
\* the quotient and round() rounds that double's exact value, ties to even.
\* A quotient is a tie only when its reduced denominator is 8, 40 or 200; with
\* denominator 8 the double is exact. Counts stay below 40 here.
round_2(total, count) ==
    LET q == (100 * total) \div count
        r == (100 * total) % count
    IN  IF 2 * r < count THEN q
        ELSE IF 2 * r > count THEN q + 1
        ELSE IF q % 2 = 0 THEN q ELSE q + 1

\* odds_of with total in place of total + 1 for a category without votes
odds_of_total(total, count) ==
    IF count > 0 THEN round_2(total, count) ELSE 100 * total

\* total / count if count > 0 else total + 1, then round(., 2)
odds_of(total, count) ==
    IF count > 0 THEN round_2(total, count) ELSE 100 * (total + 1)

ZeroOdds ==
    [total |-> 0, rain_odds |-> 0, no_rain_odds |-> 0, rain_count |-> 0, no_rain_count |-> 0]

\* get_odds without the total == 0 early return
get_odds_no_early_return(ss, date_str) ==
    LET bets  == dict_get(ss[SESSION_KEY_BETS], date_str, NewTally)
        total == bets.rain + bets.no_rain
    IN  [total |-> total,
         rain_odds |-> odds_of(total, bets.rain),
         no_rain_odds |-> odds_of(total, bets.no_rain),
         rain_count |-> bets.rain,
         no_rain_count |-> bets.no_rain]

get_odds(ss, date_str) ==
    LET bets          == dict_get(ss[SESSION_KEY_BETS], date_str, NewTally)
        rain_count    == bets.rain
        no_rain_count == bets.no_rain
        total         == rain_count + no_rain_count
    IN  IF total = 0
        THEN ZeroOdds
        ELSE [total |-> total,
              rain_odds |-> odds_of(total, rain_count),
              no_rain_odds |-> odds_of(total, no_rain_count),
              rain_count |-> rain_count,
              no_rain_count |-> no_rain_count]

\* get_odds reading with setdefault in place of get
get_odds_state_setdefault(ss, date_str) ==
    [ss EXCEPT ![SESSION_KEY_BETS] = create_entry(@, date_str)]

\* the session state a get_odds call leaves behind: dict.get inserts nothing
get_odds_state(ss, date_str) == ss

(***************************************************************************)
(* Adapters                                                                *)
(***************************************************************************)
\* a JSON value: a number or a string
Num(n) == [kind |-> "num", num |-> n, str |-> ""]

Str(x) == [kind |-> "str", num |-> 0, str |-> x]

\* CultivationForecastAPI.fetch_forecast_data: the fixed stub payload
fetch_forecast_data(location_id) == "mock_data"

\* what requests.get / raise_for_status / json raise for each outcome of the
\* read. A body that is not JSON raises requests' JSONDecodeError where the
\* installed requests has one (a RequestException) and a plain ValueError
\* where it has not.
raised_by(net, requests_has_json_error) ==
    CASE net = "timeout" -> "Timeout"
      [] net = "connection_error" -> "ConnectionError"
      [] net = "http_error" -> "HTTPError"
      [] net = "invalid_json" ->
            IF requests_has_json_error THEN "JSONDecodeError" ELSE "ValueError"
      [] OTHER -> "none"

\* the subclasses of requests.exceptions.RequestException
RequestException == {"Timeout", "ConnectionError", "HTTPError", "JSONDecodeError"}

\* the payload of the except branch: {'error': str(e), 'data_status': 'failed'}
failed_payload(exc) == ("error" :> Str(exc)) @@ ("data_status" :> Str("failed"))

\* except clause that lets HTTPError through
fetch_historical_rainfall_no_http(net, body, requests_has_json_error) ==
    LET exc == raised_by(net, requests_has_json_error)
    IN  IF exc = "none"
        THEN [status |-> "returned", exc |-> "", raw |-> <<body>>, reads |-> 1]
        ELSE IF exc \in RequestException \ {"HTTPError"}
             THEN [status |-> "returned", exc |-> "", raw |-> <<failed_payload(exc)>>,
                   reads |-> 1]
             ELSE [status |-> "raised", exc |-> exc, raw |-> <<>>, reads |-> 1]

\* CultivationHistoricalAPI.fetch_historical_rainfall: one requests.get, its
\* RequestException turned into the tagged payload, anything else propagating
fetch_historical_rainfall(net, body, requests_has_json_error) ==
    LET exc == raised_by(net, requests_has_json_error)
    IN  IF exc = "none"
        THEN [status |-> "returned", exc |-> "", raw |-> <<body>>, reads |-> 1]
        ELSE IF exc \in RequestException
             THEN [status |-> "returned", exc |-> "", raw |-> <<failed_payload(exc)>>,
                   reads |-> 1]
             ELSE [status |-> "raised", exc |-> exc, raw |-> <<>>, reads |-> 1]

(***************************************************************************)
(* WeatherForecaster                                                       *)
(***************************************************************************)
MOCK_SOURCE_TEXT == "mock forecast"

\* the result {'error': ...} of a failed fetch; a HistoricalResult has kind "result"
ErrorResult ==
    [kind |-> "error", error |-> "fetch failed", date |-> <<>>, precipitation_mm |-> 0,
     is_rain_result |-> FALSE]

\* the forecast dated from today (range(0, 7))
get_weekly_forecast_from_today(t, raw) ==
    [k \in 1..7 |->
        LET i == k - 1
            is_rain == (i % 2 = 0)
        IN  [date |-> strftime(plus_days(jst_now(t), i).date),
             precipitation_mm |-> IF is_rain THEN 100 ELSE 0,
             is_rain_forecast |-> is_rain,
             source |-> MOCK_SOURCE_TEXT]]

\* get_weekly_forecast at clock t, raw being what the forecast adapter returned
get_weekly_forecast(t, raw) ==
    [i \in 1..7 |->
        LET is_rain == (i % 2 = 0)
        IN  [date |-> strftime(plus_days(jst_now(t), i).date),
             precipitation_mm |-> IF is_rain THEN 100 ELSE 0,
             is_rain_forecast |-> is_rain,
             source |-> MOCK_SOURCE_TEXT]]

\* raw_data.get('data_status') == 'failed' or 'error' in raw_data
is_failed(raw) ==
    \/ dict_get(raw, "data_status", Str("")) = Str("failed")
    \/ "error" \in DOMAIN raw

\* _transform_historical_data: a precipitation that is not a number makes the
\* comparison with the threshold raise TypeError
transform_historical_data(raw, target_day) ==
    LET precipitation_mm == dict_get(raw, "precipitation", Num(0))
    IN  IF precipitation_mm.kind # "num"
        THEN [status |-> "raised", exc |-> "TypeError", ret |-> <<>>]
        ELSE [status |-> "returned", exc |-> "",
              ret |-> <<[kind |-> "result", error |-> "",
                         date |-> strftime(target_day),
                         precipitation_mm |-> precipitation_mm.num,
                         is_rain_result |-> precipitation_mm.num > RAIN_THRESHOLD_MM]>>]

\* get_historical_result: the whole call, as the record of what it did
get_historical_result(t, date_str, net, body, requests_has_json_error) ==
    LET target_date == strptime(date_str)
        fetched     == fetch_historical_rainfall(net, body, requests_has_json_error)
        call        == [date_str |-> date_str, net |-> net, raw |-> fetched.raw,
                        reads |-> fetched.reads, status |-> "returned", exc |-> "",
                        ret |-> <<>>]
    IN  IF target_date = ParseError
        THEN [call EXCEPT !.raw = <<>>, !.reads = 0, !.status = "raised",
                          !.exc = "ValueError"]
        ELSE IF fetched.status = "raised"
        THEN [call EXCEPT !.status = "raised", !.exc = fetched.exc]
        ELSE IF is_failed(fetched.raw[1])
        THEN [call EXCEPT !.ret = <<ErrorResult>>]
        ELSE LET out == transform_historical_data(fetched.raw[1], target_date)
             IN  [call EXCEPT !.status = out.status, !.exc = out.exc, !.ret = out.ret]

(***************************************************************************)
(* main: one run of the script, from its first line to its last or to the  *)
(* st.rerun() that ends it.                                                *)
(***************************************************************************)
FORECAST_LOCATION_ID == "44132"

\* key=f"rain_{date_str}", key=f"no_rain_{date_str}"
button_key(bet_type, date_str) ==
    <<IF bet_type = "rain" THEN "rain_" ELSE "no_rain_">> \o date_str

\* what a run emits for one day; odds is empty when the run ended at a button
day_element(day, votable, odds) ==
    [date |-> day.date,
     is_rain_forecast |-> day.is_rain_forecast,
     buttons |-> IF votable
                 THEN {button_key("rain", day.date), button_key("no_rain", day.date)}
                 ELSE {},
     odds |-> odds]

\* the body of `for day_forecast in weekly_forecasts`, from entry k on. click is
\* the key of the button st.button() reports pressed in this run, or <<>>.
RECURSIVE render_days(_, _, _, _, _)
render_days(run, weekly_forecasts, k, today, click) ==
    IF k > Len(weekly_forecasts) THEN run
    ELSE
        LET day     == weekly_forecasts[k]
            votable == date_gt(strptime(day.date), today)
            voted(bet_type) ==
                [ss |-> record_bet(run.ss, day.date, bet_type),
                 page |-> Append(run.page, day_element(day, votable, <<>>)),
                 recorded |-> Append(run.recorded, <<day.date, bet_type>>),
                 rerun |-> TRUE]
        IN  IF votable /\ click = button_key("rain", day.date) THEN voted("rain")
            ELSE IF votable /\ click = button_key("no_rain", day.date) THEN voted("no_rain")
            ELSE render_days(
                     [run EXCEPT !.page =
                         Append(@, day_element(day, votable, <<get_odds(run.ss, day.date)>>))],
                     weekly_forecasts, k + 1, today, click)

\* main(): t1 is the clock at `jst_now = datetime.now(...)`, t2 the clock when
\* get_weekly_forecast reads it. The result is the session state the run
\* leaves, the elements it emitted, the record_bet calls it made, and whether
\* it ended in st.rerun().
main(ss, t1, t2, click) ==
    LET weekly_forecasts == get_weekly_forecast(t2, fetch_forecast_data(FORECAST_LOCATION_ID))
        today            == jst_now(t1).date
    IN  render_days([ss |-> BettingManager_init(ss), page |-> <<>>, recorded |-> <<>>,
                     rerun |-> FALSE],
                    weekly_forecasts, 1, today, click)

(***************************************************************************)
(* The ledger specification: a constructed BettingManager and any sequence *)
(* of record_bet and get_odds calls on it.                                 *)
(***************************************************************************)
\* "snow" stands for every bet_type other than 'rain' and 'no_rain'
Categories == {"rain", "no_rain", "snow"}

ValidCategories == {"rain", "no_rain"}

\* the dates votes are recorded for, and one more that is only ever read
LedgerDates == {strftime(<<2024, 2, 29>>), strftime(<<2024, 3, 1>>)}

ReadDates == LedgerDates \cup {strftime(<<2024, 3, 2>>)}

None == <<>>

\* last before any call; nth is the number of calls so far modulo 2, so that a
\* call repeated with the same result is still a step
NoCall == [op |-> "none", date_str |-> <<>>, bet_type |-> "", ret |-> None, nth |-> 0]

\* what the next script run is triggered by: nothing, a rerun, a pressed button
Idle == [kind |-> "idle", key |-> <<>>]

Rerun == [kind |-> "run", key |-> <<>>]

Pressed(key) == [kind |-> "click", key |-> key]

NoClock == [date |-> <<1, 1, 1>>, hour |-> 0]

NoForecast == [at |-> NoClock, raw |-> "", ret |-> <<>>]

NoHist ==
    [date_str |-> <<>>, net |-> "", raw |-> <<>>, reads |-> 0, status |-> "none", exc |-> "",
     ret |-> <<>>]

\* calls so far of record_bet(d, c)
Called(d, c) == CopiesIn(<<d, c>>, calls)

Call(d, c) == calls (+) SetToBag({<<d, c>>})

InitLedger ==
    /\ session_state = BettingManager_init(EmptyDict)
    /\ calls = EmptyBag
    /\ last = NoCall
    /\ now = NoClock
    /\ fc = NoForecast
    /\ hist = NoHist
    /\ page = <<>>
    /\ pending = Idle

Construct ==
    /\ session_state' = BettingManager_init(session_state)
    /\ last' = [op |-> "init", date_str |-> <<>>, bet_type |-> "", ret |-> None,
                nth |-> 1 - last.nth]
    /\ UNCHANGED <<calls, now, fc, hist, page, pending>>

RecordBet(d, c) ==
    /\ c \in ValidCategories => Called(d, "rain") + Called(d, "no_rain") < MaxVotes
    /\ c \notin ValidCategories => Called(d, c) < MaxInvalid
    /\ session_state' = record_bet(session_state, d, c)
    /\ calls' = Call(d, c)
    /\ last' = [op |-> "record_bet", date_str |-> d, bet_type |-> c, ret |-> None,
                nth |-> 1 - last.nth]
    /\ UNCHANGED <<now, fc, hist, page, pending>>

GetOdds(d) ==
    /\ session_state' = get_odds_state(session_state, d)
    /\ last' = [op |-> "get_odds", date_str |-> d, bet_type |-> "",
                ret |-> <<get_odds(session_state, d)>>, nth |-> 1 - last.nth]
    /\ UNCHANGED <<calls, now, fc, hist, page, pending>>

NextLedger ==
    \/ Construct
    \/ \E d \in LedgerDates, c \in Categories : RecordBet(d, c)
    \/ \E d \in ReadDates : GetOdds(d)

SpecLedger == InitLedger /\ [][NextLedger]_vars

(***************************************************************************)
(* Claims about the ledger, checked under SpecLedger.                      *)
(***************************************************************************)
Bets == session_state[SESSION_KEY_BETS]

\* the counters stored for a date, an absent date counting as {0, 0}
Stored(ss, d) == dict_get(ss[SESSION_KEY_BETS], d, NewTally)

Abs(x) == IF x < 0 THEN -x ELSE x

C1_Counts ==
    \A d \in ReadDates :
        LET o == get_odds(session_state, d)
        IN  /\ o.rain_count = Called(d, "rain")
            /\ o.no_rain_count = Called(d, "no_rain")
            /\ o.total = o.rain_count + o.no_rain_count
            /\ o.rain_count >= 0 /\ o.no_rain_count >= 0

C1_Step ==
    \A d \in LedgerDates, c \in ValidCategories :
        calls' = Call(d, c) =>
            /\ Stored(session_state', d)[c] = Stored(session_state, d)[c] + 1
            /\ \A e \in ReadDates, k \in ValidCategories :
                   <<e, k>> # <<d, c>> =>
                       Stored(session_state', e)[k] = Stored(session_state, e)[k]

\* C1: after any sequence of record_bet calls on an empty ledger, get_odds(d)
\* reports for every date d rain_count and no_rain_count equal to the number of
\* record_bet(d, 'rain') and record_bet(d, 'no_rain') calls made so far, with
\* total = rain_count + no_rain_count and both counters non-negative, and each
\* call with a valid category raises exactly one counter, by exactly 1.
C1_TallyCountsCalls == [](C1_Counts) /\ [][C1_Step]_vars

C1_Witness ==
    /\ Called(strftime(<<2024, 2, 29>>), "rain") = 2
    /\ Called(strftime(<<2024, 2, 29>>), "no_rain") = 1
    /\ Called(strftime(<<2024, 3, 1>>), "no_rain") = 3
    /\ Called(strftime(<<2024, 3, 1>>), "snow") = 1
    /\ last.op = "get_odds"
    /\ last.ret[1].total = 3

\* the odds of one category, in hundredths, as the claim states them
C2_OddsAsStated(odds, total, count) ==
    IF count = 0
    THEN odds = 100 * (total + 1)
    ELSE 2 * Abs(100 * total - odds * count) <= count

\* C2: for every tally with total = rain + no_rain > 0, get_odds returns for
\* each category total + 1 when that category's count is 0 and otherwise
\* total / count rounded to 2 decimal places (a hundredth nearest the quotient);
\* 3 rain / 0 no_rain gives 1.00 and 4, 2 rain / 1 no_rain gives 1.50 and 3.00.
C2_OddsFormula ==
    \A d \in ReadDates :
        LET o == get_odds(session_state, d)
            t == Stored(session_state, d)
        IN  t.rain + t.no_rain > 0 =>
                /\ o.total = t.rain + t.no_rain
                /\ C2_OddsAsStated(o.rain_odds, o.total, t.rain)
                /\ C2_OddsAsStated(o.no_rain_odds, o.total, t.no_rain)
                /\ (t.rain = 3 /\ t.no_rain = 0) =>
                       (o.rain_odds = 100 /\ o.no_rain_odds = 400)
                /\ (t.rain = 2 /\ t.no_rain = 1) =>
                       (o.rain_odds = 150 /\ o.no_rain_odds = 300)

\* both worked examples at once, and a tie (9 / 8 = 1.125) read back
C2_Witness ==
    /\ Stored(session_state, strftime(<<2024, 2, 29>>)) = [rain |-> 8, no_rain |-> 1]
    /\ Stored(session_state, strftime(<<2024, 3, 1>>)) = [rain |-> 2, no_rain |-> 1]
    /\ last.op = "get_odds"
    /\ last.date_str = strftime(<<2024, 2, 29>>)
    /\ last.ret[1].rain_odds = 112
    /\ last.ret[1].no_rain_odds = 900

\* C3: record_bet with a category other than 'rain' and 'no_rain' leaves the
\* ledger exactly as it was: no counter changes and no entry is created.
C3_UnknownCategoryIsNoOp ==
    [][\A d \in LedgerDates :
           calls' = Call(d, "snow") => session_state' = session_state]_vars

\* C4: for every date that has received no vote (whether absent from the
\* ledger or present with counters {0, 0}, in an empty ledger or one holding
\* other dates) get_odds returns exactly the all-zero result.
C4_NoVoteZeroOdds ==
    \A d \in ReadDates :
        (Called(d, "rain") = 0 /\ Called(d, "no_rain") = 0) =>
            /\ Stored(session_state, d) = NewTally
            /\ get_odds(session_state, d) = ZeroOdds
            /\ (last.op = "get_odds" /\ last.date_str = d) => last.ret = <<ZeroOdds>>

\* a {0, 0} entry, an absent date and a voted date side by side
C4_Witness ==
    /\ strftime(<<2024, 2, 29>>) \in DOMAIN Bets
    /\ Bets[strftime(<<2024, 2, 29>>)] = NewTally
    /\ Called(strftime(<<2024, 3, 1>>), "rain") = 2
    /\ strftime(<<2024, 3, 2>>) \notin DOMAIN Bets
    /\ last.op = "get_odds"
    /\ last.date_str = strftime(<<2024, 2, 29>>)

\* C5: get_odds is a pure read: a get_odds call leaves the ledger unchanged
\* (no entry is created, even for an absent date), and a second get_odds(d)
\* directly after a first returns the same value.
C5_GetOddsIsPureRead ==
    [][/\ last'.op = "get_odds" => session_state' = session_state
       /\ (last.op = "get_odds" /\ last'.op = "get_odds"
             /\ last'.date_str = last.date_str) => last'.ret = last.ret]_vars

\* a read of a date absent from a ledger that holds votes
C5_Witness ==
    /\ last.op = "get_odds"
    /\ last.date_str \notin DOMAIN Bets
    /\ Bets # EmptyDict
    /\ calls # EmptyBag

\* C8: whenever a date has at least one vote, the category with fewer votes
\* never has the lower odds, a category with no vote has strictly higher odds
\* than the other, equal counts give equal odds, and both odds are at least 1.
C8_RarerOutcomePaysMore ==
    \A d \in ReadDates :
        LET o == get_odds(session_state, d)
            r == Called(d, "rain")
            n == Called(d, "no_rain")
        IN  r + n > 0 =>
                /\ r < n => o.rain_odds >= o.no_rain_odds
                /\ n < r => o.no_rain_odds >= o.rain_odds
                /\ r = 0 => o.rain_odds > o.no_rain_odds
                /\ n = 0 => o.no_rain_odds > o.rain_odds
                /\ r = n => o.rain_odds = o.no_rain_odds
                /\ o.rain_odds >= 100 /\ o.no_rain_odds >= 100

C8_Witness ==
    /\ Called(strftime(<<2024, 2, 29>>), "rain") = 0
    /\ Called(strftime(<<2024, 2, 29>>), "no_rain") = 1
    /\ Called(strftime(<<2024, 3, 1>>), "rain") = 4
    /\ Called(strftime(<<2024, 3, 1>>), "no_rain") = 3
    /\ last.op = "get_odds"
    /\ last.date_str = strftime(<<2024, 3, 1>>)
    /\ last.ret[1].rain_odds < last.ret[1].no_rain_odds

\* C10: record_bet(d, category) changes at most the entry of d: for every
\* other date the stored entry (its presence and its counters) and the result
\* of get_odds are the same before and after the call.
C10_DatesAreIndependent ==
    [][\A d \in LedgerDates, c \in Categories :
           calls' = Call(d, c) =>
               \A e \in ReadDates \ {d} :
                   /\ (e \in DOMAIN session_state'[SESSION_KEY_BETS])
                          = (e \in DOMAIN session_state[SESSION_KEY_BETS])
                   /\ Stored(session_state', e) = Stored(session_state, e)
                   /\ get_odds(session_state', e) = get_odds(session_state, e)]_vars

\* a vote for one date just recorded while the other date holds votes
C10_Witness ==
    /\ last.op = "record_bet"
    /\ last.date_str = strftime(<<2024, 2, 29>>)
    /\ Called(strftime(<<2024, 2, 29>>), "rain") = 1
    /\ Called(strftime(<<2024, 3, 1>>), "rain") = 1
    /\ Called(strftime(<<2024, 3, 1>>), "no_rain") = 2

(***************************************************************************)
(* The forecaster specification: a WeatherForecaster called at any moment  *)
(* of a running clock, with any outcome of the outbound read.              *)
(***************************************************************************)
\* before a leap day, before the end of a common February, before the new
\* year, before the end of February in a century year that is no leap year
ForecasterStarts ==
    {[date |-> <<2024, 2, 26>>, hour |-> 3], [date |-> <<2023, 2, 24>>, hour |-> 3],
     [date |-> <<2023, 12, 27>>, hour |-> 3], [date |-> <<2100, 2, 23>>, hour |-> 3]}

\* hours from clock s to clock t
HoursSince(s, t) == (ymd2ord(t.date) - ymd2ord(s.date)) * 24 + t.hour - s.hour

\* what a forecast adapter may hand back: the stub's payload, or a real feed's
ForecastPayloads == {fetch_forecast_data("44132"), "rain_all_week", "dry_all_week"}

\* the ways the outbound read fails before a body is decoded
ReadFailures == {"timeout", "connection_error", "http_error"}

\* bodies of a 2xx answer
Bodies ==
    {EmptyDict,
     "precipitation" :> Num(55),
     "precipitation" :> Num(0),
     "precipitation" :> Str("5.5"),
     "error" :> Str("quota exceeded"),
     "data_status" :> Str("failed"),
     ("data_status" :> Str("ok")) @@ ("precipitation" :> Num(55)),
     ("data_status" :> Str("failed")) @@ ("precipitation" :> Num(12))}

\* what the network does with the one read: a 2xx answer with a JSON body, a
\* failed read, or a 2xx answer whose body is not JSON (under either requests)
Outcomes ==
    {<<"ok", body, TRUE>> : body \in Bodies}
        \cup {<<net, EmptyDict, TRUE>> : net \in ReadFailures}
        \cup {<<"invalid_json", EmptyDict, b>> : b \in BOOLEAN}

\* date strings asked for: well-formed ones, and two that strptime rejects
HistoricalDates ==
    {strftime(<<2024, 1, 15>>),
     <<"2", "0", "2", "4", "-", "1", "-", "5">>,
     <<"2", "0", "2", "3", "-", "0", "2", "-", "2", "9">>,
     <<"2", "0", "2", "4", "/", "0", "1", "/", "1", "5">>}

InitForecaster ==
    /\ session_state = EmptyDict
    /\ calls = EmptyBag
    /\ last = NoCall
    /\ now \in ForecasterStarts
    /\ fc = NoForecast
    /\ hist = NoHist
    /\ page = <<>>
    /\ pending = Idle

\* time passes
Tick ==
    /\ \E s \in ForecasterStarts :
           HoursSince(s, now) >= 0 /\ HoursSince(s, now) < 12 * MaxTicks
    /\ now' = plus_hours(now, 12)
    /\ UNCHANGED <<session_state, calls, last, fc, hist, page, pending>>

GetWeeklyForecast(raw) ==
    /\ fc' = [at |-> now, raw |-> raw, ret |-> get_weekly_forecast(now, raw)]
    /\ UNCHANGED <<session_state, calls, last, now, hist, page, pending>>

GetHistoricalResult(date_str, net, body, requests_has_json_error) ==
    /\ hist' = get_historical_result(now, date_str, net, body, requests_has_json_error)
    /\ UNCHANGED <<session_state, calls, last, now, fc, page, pending>>

NextForecaster ==
    \/ Tick
    \/ \E raw \in ForecastPayloads : GetWeeklyForecast(raw)
    \/ \E date_str \in HistoricalDates, o \in Outcomes :
           GetHistoricalResult(date_str, o[1], o[2], o[3])

SpecForecaster == InitForecaster /\ [][NextForecaster]_vars

(***************************************************************************)
(* Claims about the forecaster, checked under SpecForecaster.              *)
(***************************************************************************)
\* the calendar day after a calendar day
NextDay(ymd) ==
    IF ymd[3] < days_in_month(ymd[1], ymd[2]) THEN <<ymd[1], ymd[2], ymd[3] + 1>>
    ELSE IF ymd[2] < 12 THEN <<ymd[1], ymd[2] + 1, 1>>
    ELSE <<ymd[1] + 1, 1, 1>>

RECURSIVE DayAfter(_, _)
DayAfter(ymd, i) == IF i = 0 THEN ymd ELSE NextDay(DayAfter(ymd, i - 1))

\* the calendar date in the fixed timezone at UTC clock t
LocalDate(t) == IF t.hour + TIMEZONE >= 24 THEN NextDay(t.date) ELSE t.date

\* C6: get_weekly_forecast, called at any moment, returns exactly 7 entries
\* dated with the consecutive calendar days now+1 .. now+7 of the fixed
\* timezone, in order; entry i is a rain forecast exactly when i is even, with
\* precipitation 10.0 on rain entries and 0.0 otherwise, whatever the forecast
\* adapter returned.
C6_WeeklyForecast ==
    fc.ret # <<>> =>
        /\ Len(fc.ret) = 7
        /\ \A i \in 1..7 :
               /\ strptime(fc.ret[i].date) = DayAfter(LocalDate(fc.at), i)
               /\ Len(fc.ret[i].date) = 10
               /\ fc.ret[i].is_rain_forecast = (i % 2 = 0)
               /\ fc.ret[i].precipitation_mm = (IF i % 2 = 0 THEN 100 ELSE 0)

\* called just after local midnight of 28 February 2024, with an adapter that
\* is not the stub: the week runs over the leap day into March
C6_Witness ==
    /\ fc.at = [date |-> <<2024, 2, 27>>, hour |-> 15]
    /\ fc.raw = "rain_all_week"
    /\ fc.ret[1].date = strftime(<<2024, 2, 29>>)
    /\ fc.ret[2].date = strftime(<<2024, 3, 1>>)
    /\ fc.ret[2].is_rain_forecast
    /\ fc.ret[7].date = strftime(<<2024, 3, 6>>)

\* C7: for a well-formed date, when the one outbound read fails (transport
\* failure, timeout or non-2xx status) the adapter returns the payload
\* {error, data_status: 'failed'} and get_historical_result returns the error
\* result without raising; any payload with data_status == 'failed' or an
\* 'error' key yields the error result; the read is attempted exactly once.
C7_FailedReadIsErrorResult ==
    (hist.status # "none" /\ strptime(hist.date_str) # ParseError) =>
        /\ hist.reads = 1
        /\ hist.net \in ReadFailures =>
               /\ hist.status = "returned"
               /\ Len(hist.raw) = 1
               /\ DOMAIN hist.raw[1] = {"error", "data_status"}
               /\ hist.raw[1]["data_status"] = Str("failed")
               /\ hist.ret = <<ErrorResult>>
        /\ (/\ Len(hist.raw) = 1
            /\ \/ "error" \in DOMAIN hist.raw[1]
               \/ /\ "data_status" \in DOMAIN hist.raw[1]
                  /\ hist.raw[1]["data_status"] = Str("failed")) =>
               /\ hist.status = "returned"
               /\ hist.ret = <<ErrorResult>>

\* a non-2xx answer for a date written without zero padding
C7_Witness ==
    /\ hist.net = "http_error"
    /\ hist.date_str = <<"2", "0", "2", "4", "-", "1", "-", "5">>
    /\ hist.status = "returned"
    /\ hist.ret = <<ErrorResult>>
    /\ hist.reads = 1

(***************************************************************************)
(* The session specification: one browser session of the page. The script  *)
(* runs on load, again after every pressed button and after every rerun    *)
(* request; each run completes before the next event is taken.             *)
(***************************************************************************)
\* noon of 27 February 2024 in Tokyo
SessionStart == [date |-> <<2024, 2, 27>>, hour |-> 3]

InitSession ==
    /\ session_state = EmptyDict
    /\ calls = EmptyBag
    /\ last = NoCall
    /\ now = SessionStart
    /\ fc = NoForecast
    /\ hist = NoHist
    /\ page = <<>>
    /\ pending = Rerun

\* time passes while the page is open
TickSession ==
    /\ HoursSince(SessionStart, now) < 12 * MaxSessionTicks
    /\ now' = plus_hours(now, 12)
    /\ UNCHANGED <<session_state, calls, last, fc, hist, page, pending>>

\* the visitor presses one of the buttons on the page in front of them
Click ==
    /\ pending = Idle
    /\ BagCardinality(calls) < MaxSessionVotes
    /\ \E i \in 1..Len(page) : \E key \in page[i].buttons : pending' = Pressed(key)
    /\ UNCHANGED <<session_state, calls, last, now, fc, hist, page>>

\* the visitor asks for a rerun of the script
Rerender ==
    /\ pending = Idle
    /\ pending' = Rerun
    /\ UNCHANGED <<session_state, calls, last, now, fc, hist, page>>

\* one run of main(); elapsed is the time between its two readings of the clock
ScriptRun(elapsed) ==
    /\ pending # Idle
    /\ elapsed > 0 => HoursSince(SessionStart, now) < 12 * MaxSessionTicks
    /\ LET run == main(session_state, now, plus_hours(now, elapsed), pending.key)
       IN  /\ session_state' = run.ss
           /\ page' = run.page
           /\ calls' = calls (+) SetToBag({run.recorded[i] : i \in 1..Len(run.recorded)})
           /\ pending' = IF run.rerun THEN Rerun ELSE Idle
    /\ now' = plus_hours(now, elapsed)
    /\ UNCHANGED <<last, fc, hist>>

NextSession ==
    \/ TickSession
    \/ Click
    \/ Rerender
    \/ \E elapsed \in {0, 12} : ScriptRun(elapsed)

SpecSession == InitSession /\ [][NextSession]_vars

(***************************************************************************)
(* Claims about the session, checked under SpecSession.                    *)
(***************************************************************************)
HasLedger(ss) == SESSION_KEY_BETS \in DOMAIN ss

\* the bet_type and the date a button key names
KeyVote(key) ==
    IF key[1] = "rain_" THEN <<Tail(key), "rain">> ELSE <<Tail(key), "no_rain">>

\* every odds on the page counts every vote recorded so far for its date
C9_Rendered ==
    \A i \in 1..Len(page) :
        page[i].odds # <<>> =>
            /\ page[i].odds[1].rain_count = Called(page[i].date, "rain")
            /\ page[i].odds[1].no_rain_count = Called(page[i].date, "no_rain")
            /\ page[i].odds[1] = get_odds(session_state, page[i].date)

\* a ledger, once the session has one, keeps every entry and every counter
C9_Kept ==
    HasLedger(session_state) =>
        /\ HasLedger(session_state')
        /\ \A d \in DOMAIN session_state[SESSION_KEY_BETS] :
               /\ d \in DOMAIN session_state'[SESSION_KEY_BETS]
               /\ session_state'[SESSION_KEY_BETS][d].rain
                      >= session_state[SESSION_KEY_BETS][d].rain
               /\ session_state'[SESSION_KEY_BETS][d].no_rain
                      >= session_state[SESSION_KEY_BETS][d].no_rain

\* a run that ends in a rerun request is a run whose pressed button recorded
\* exactly one vote, the one the button names; every other run records none
\* and leaves an existing ledger as it is
C9_OneVotePerActivation ==
    (pending # Idle /\ pending' # pending) =>
        IF pending' = Rerun
        THEN /\ pending.kind = "click"
             /\ calls' = calls (+) SetToBag({KeyVote(pending.key)})
             /\ Stored(session_state', KeyVote(pending.key)[1])[KeyVote(pending.key)[2]]
                    = Stored(session_state, KeyVote(pending.key)[1])[KeyVote(pending.key)[2]] + 1
        ELSE /\ calls' = calls
             /\ HasLedger(session_state) => session_state' = session_state
             /\ session_state'[SESSION_KEY_BETS] =
                    IF HasLedger(session_state) THEN session_state[SESSION_KEY_BETS]
                    ELSE EmptyDict

\* C9: within one session the ledger survives re-renders: constructing a
\* BettingManager creates an empty ledger only when the session has none and
\* leaves an existing one unchanged; each button activation (st.button
\* reporting the press to the run) records exactly one vote before the rerun is
\* requested; the odds rendered for every date include every vote recorded so
\* far in the session; no entry is ever deleted or reset.
C9_LedgerSurvivesRerenders ==
    [](C9_Rendered) /\ [][C9_Kept /\ C9_OneVotePerActivation]_vars

\* a complete page after two votes and a change of day: one vote is shown in
\* the odds of its date, the other is for a date that has left the page
C9_Witness ==
    /\ pending = Idle
    /\ Len(page) = 7
    /\ BagCardinality(calls) = 2
    /\ \E d \in DOMAIN Bets : \A i \in 1..7 : page[i].date # d
    /\ \E i \in 1..7 : page[i].odds # <<>> /\ page[i].odds[1].total = 1

====
